---- MODULE Spec2Model ----
(***************************************************************************)
(* Model of Bridge/src/languageService.ts: the versioned script snapshot   *)
(* (ScriptSnapshot), the file map of LanguageServiceHost and the facade    *)
(* LanguageServiceHostService.                                             *)
(*                                                                         *)
(* Strings are sequences of one-character strings.  A JavaScript exception *)
(* is a result record [kind |-> "throw", error |-> ...]; undefined is the  *)
(* value Undefined.                                                        *)
(***************************************************************************)
EXTENDS Integers, Sequences, FiniteSets, TLC

\* ------------------------------------------------------------------ bounds

\* longest content, in characters, that the environment hands to the program
MaxLen == 2
\* the series of replaces and edits of a buffer stops at this version
MaxVersion == 4
\* longest array handed to addFiles / removeFiles through the facade
MaxBatch == 1
\* the long editing session stops at this version
MaxLongVersion == 103

\* ----------------------------------------------------------- JavaScript

Undefined == "undefined"

Min(a, b) == IF a < b THEN a ELSE b
Max(a, b) == IF a > b THEN a ELSE b

\* String.prototype.substring: both arguments are clamped to [0, length] and
\* swapped when start > end.
substring(str, start, end) ==
    LET s  == Min(Max(start, 0), Len(str))
        e  == Min(Max(end, 0), Len(str))
        lo == Min(s, e)
        hi == Max(s, e)
    IN  SubSeq(str, lo + 1, hi)

\* str[i]: undefined outside the string
charIndex(str, i) == IF i >= 0 /\ i < Len(str) THEN str[i + 1] ELSE Undefined

\* str.charAt(i): the empty string outside the string
charAt(str, i) == IF i >= 0 /\ i < Len(str) THEN str[i + 1] ELSE ""

\* Array.prototype.slice(start) for start >= 0
slice(arr, start) == SubSeq(arr, start + 1, Len(arr))

\* ------------------------------------------------- TypeScript text library

\* TextChangeRange(TextSpan.fromBounds(start, end), newLength)
TextChangeRange(start, end, newLength) ==
    [kind |-> "range", start |-> start, end |-> end, newLength |-> newLength]

\* TextChangeRange.unchanged, the "no change" sentinel object
unchanged == [kind |-> "unchanged", start |-> 0, end |-> 0, newLength |-> 0]

\* null
null == [kind |-> "null", start |-> 0, end |-> 0, newLength |-> 0]

\* one round of the loop of collapseChangesAcrossMultipleVersions: the range
\* collapsed so far, (oldStartN, oldEndN, newEndN), merged with the next change
collapseStep(acc, nextChange) ==
    LET oldStart2 == nextChange.start
        oldEnd2   == nextChange.end
        newEnd2   == oldStart2 + nextChange.newLength
    IN  [oldStartN |-> Min(acc.oldStartN, oldStart2),
         oldEndN   |-> Max(acc.oldEndN, acc.oldEndN + (oldEnd2 - acc.newEndN)),
         newEndN   |-> Max(newEnd2, newEnd2 + (acc.newEndN - oldEnd2))]

\* the loop over changes[lo..hi], oldest first.  The rounds are applied in the
\* order of the array; the range is halved, and acc = acc evaluates the rounds
\* so far before the next ones, only to keep the evaluation shallow.
RECURSIVE collapseFrom(_, _, _, _)
collapseFrom(acc, changes, lo, hi) ==
    IF acc = acc /\ lo > hi THEN acc
    ELSE IF lo = hi THEN collapseStep(acc, changes[lo])
    ELSE LET mid == (lo + hi) \div 2
         IN  collapseFrom(collapseFrom(acc, changes, lo, mid), changes, mid + 1, hi)

\* TextChangeRange.collapseChangesAcrossMultipleVersions: one range whose span
\* is the union of the affected positions of the oldest text and whose net
\* length delta is the sum of the entries' deltas.
collapseChangesAcrossMultipleVersions(changes) ==
    IF Len(changes) = 0 THEN unchanged
    ELSE IF Len(changes) = 1 THEN changes[1]
    ELSE LET acc == collapseFrom([oldStartN |-> changes[1].start,
                                  oldEndN   |-> changes[1].end,
                                  newEndN   |-> changes[1].start + changes[1].newLength],
                                 changes, 2, Len(changes))
         IN  TextChangeRange(acc.oldStartN, acc.oldEndN, acc.newEndN - acc.oldStartN)

RECURSIVE lineStartsFrom(_, _)
lineStartsFrom(content, i) ==
    IF i > Len(content) THEN <<>>
    ELSE IF content[i] = "\n" THEN <<i>> \o lineStartsFrom(content, i + 1)
    ELSE lineStartsFrom(content, i + 1)

\* TextUtilities.parseLineStarts: offset 0 and the offset after every newline
parseLineStarts(content) == <<0>> \o lineStartsFrom(content, 1)

\* --------------------------------------------------------- ScriptSnapshot

maxChanges == 100

\* updateContent counting the version twice
updateContent_twice(this, content, resetChanges) ==
    [this EXCEPT
        !.changes = IF resetChanges THEN <<>> ELSE @,
        !.content = content,
        !.lineStartPositions = parseLineStarts(content),
        !.version = @ + 2]

\* updateContent that never empties the change history
updateContent_keepsChanges(this, content, resetChanges) ==
    [this EXCEPT
        !.content = content,
        !.lineStartPositions = parseLineStarts(content),
        !.version = @ + 1]

updateContent(this, content, resetChanges) ==
    [this EXCEPT
        !.changes = IF resetChanges THEN <<>> ELSE @,
        !.content = content,
        !.lineStartPositions = parseLineStarts(content),
        !.version = @ + 1]

\* a constructor that starts counting at 1 before the first updateContent
NewScriptSnapshot_fromOne(content) ==
    [version |-> 2, open |-> TRUE, content |-> content, changes |-> <<>>,
     lineStartPositions |-> parseLineStarts(content)]

\* new ScriptSnapshot(file), with the content readFileContents(file) returned
NewScriptSnapshot(content) ==
    updateContent([version |-> 0, open |-> TRUE, content |-> <<>>,
                   changes |-> <<>>, lineStartPositions |-> <<>>],
                  content, TRUE)

\* addEdit that empties the history only once it exceeds maxChanges
addEdit_clearsLate(this, offset, length, replacementText) ==
    LET kept       == IF Len(this.changes) > maxChanges THEN <<>> ELSE this.changes
        beforeEdit == substring(this.content, 0, offset)
        afterEdit  == substring(this.content, offset + length, Len(this.content))
        newContent == beforeEdit \o replacementText \o afterEdit
        textChangeRange == TextChangeRange(offset, offset + length, Len(replacementText))
    IN  [this EXCEPT
            !.changes = Append(kept, textChangeRange),
            !.content = newContent,
            !.lineStartPositions = parseLineStarts(newContent),
            !.version = @ + 1]

\* addEdit that keeps the replaced characters (afterEdit taken from offset)
addEdit_keepsReplaced(this, offset, length, replacementText) ==
    LET kept       == IF Len(this.changes) >= maxChanges THEN <<>> ELSE this.changes
        beforeEdit == substring(this.content, 0, offset)
        afterEdit  == substring(this.content, offset, Len(this.content))
        newContent == beforeEdit \o replacementText \o afterEdit
        textChangeRange == TextChangeRange(offset, offset + length, Len(replacementText))
    IN  [this EXCEPT
            !.changes = Append(kept, textChangeRange),
            !.content = newContent,
            !.lineStartPositions = parseLineStarts(newContent),
            !.version = @ + 1]

\* addEdit that puts the new change range in front of the history (unshift)
addEdit_prepends(this, offset, length, replacementText) ==
    LET kept       == IF Len(this.changes) >= maxChanges THEN <<>> ELSE this.changes
        beforeEdit == substring(this.content, 0, offset)
        afterEdit  == substring(this.content, offset + length, Len(this.content))
        newContent == beforeEdit \o replacementText \o afterEdit
        textChangeRange == TextChangeRange(offset, offset + length, Len(replacementText))
    IN  updateContent([this EXCEPT !.changes = <<textChangeRange>> \o kept],
                      newContent, FALSE)

addEdit(this, offset, length, replacementText) ==
    LET kept       == IF Len(this.changes) >= maxChanges THEN <<>> ELSE this.changes
        beforeEdit == substring(this.content, 0, offset)
        afterEdit  == substring(this.content, offset + length, Len(this.content))
        newContent == beforeEdit \o replacementText \o afterEdit
        textChangeRange == TextChangeRange(offset, offset + length, Len(replacementText))
    IN  updateContent([this EXCEPT !.changes = Append(kept, textChangeRange)],
                      newContent, FALSE)

\* the version of a snapshot just constructed
InitialVersion == NewScriptSnapshot(<<>>).version

getText(this, start, end) == substring(this.content, start, end)

getLength(this) == Len(this.content)

\* getTextChangeRangeSinceVersion comparing with < instead of <=
getTextChangeRangeSinceVersion_strict(this, version) ==
    IF this.version = version THEN unchanged
    ELSE IF this.version - version < Len(this.changes)
    THEN LET start == Len(this.changes) - (this.version - version)
         IN  collapseChangesAcrossMultipleVersions(slice(this.changes, start))
    ELSE null

\* getTextChangeRangeSinceVersion answering null for the current version
getTextChangeRangeSinceVersion_nullWhenSame(this, version) ==
    IF this.version = version THEN null
    ELSE IF this.version - version <= Len(this.changes)
    THEN LET start == Len(this.changes) - (this.version - version)
         IN  collapseChangesAcrossMultipleVersions(slice(this.changes, start))
    ELSE null

getTextChangeRangeSinceVersion(this, version) ==
    IF this.version = version THEN unchanged
    ELSE IF this.version - version <= Len(this.changes)
    THEN LET start == Len(this.changes) - (this.version - version)
         IN  collapseChangesAcrossMultipleVersions(slice(this.changes, start))
    ELSE null

\* ----------------------------------------------------------- results

Value(v) == [kind |-> "value", value |-> v]
Throw(e) == [kind |-> "throw", error |-> e]

\* ---------------------------------------------------- LanguageServiceHost

\* whether this.fileMap.get(file) is a snapshot; it is undefined otherwise, and
\* calling a method of it throws a TypeError
mapHas(fileMap, file) == file \in DOMAIN fileMap

\* this.fileMap.get(file) for a key of the map
mapGet(fileMap, file) == fileMap[file]

\* this.fileMap.set(file, value)
mapSet(fileMap, file, value) ==
    [f \in DOMAIN fileMap \cup {file} |-> IF f = file THEN value ELSE fileMap[f]]

\* this.fileMap.delete(file)
mapDelete(fileMap, file) == [f \in DOMAIN fileMap \ {file} |-> fileMap[f]]

LowerCase == <<"a", "b", "c", "d", "e", "f", "g", "h", "i", "j", "k", "l", "m",
               "n", "o", "p", "q", "r", "s", "t", "u", "v", "w", "x", "y", "z">>
UpperCase == <<"A", "B", "C", "D", "E", "F", "G", "H", "I", "J", "K", "L", "M",
               "N", "O", "P", "Q", "R", "S", "T", "U", "V", "W", "X", "Y", "Z">>
Digits == {"0", "1", "2", "3", "4", "5", "6", "7", "8", "9"}

\* String.prototype.toUpperCase on a string of at most one ASCII character
toUpperCase(c) ==
    IF \E i \in 1..26 : LowerCase[i] = c
    THEN UpperCase[CHOOSE i \in 1..26 : LowerCase[i] = c]
    ELSE c

\* validMethodChar of a defined argument
validMethodChar(orig_c) ==
    LET c == toUpperCase(orig_c)
    IN  IF \E i \in 1..26 : UpperCase[i] = c THEN TRUE
        ELSE IF c = "(" \/ c = ")" THEN TRUE
        ELSE IF c \in Digits THEN TRUE
        ELSE IF c = "$" \/ c = "_" THEN TRUE
        ELSE FALSE

\* validPosition: a boolean, or the TypeError of calling a method of undefined
\* (getText of an unregistered file, toUpperCase of a missing character)
validPosition(fileMap, fileName, position) ==
    IF position = 0 THEN Value(FALSE)
    ELSE IF ~mapHas(fileMap, fileName) THEN Throw("TypeError")
    ELSE LET snapshot == getText(mapGet(fileMap, fileName), position - 2, position)
         IN  IF charIndex(snapshot, 1) = "."
             THEN IF charIndex(snapshot, 0) = Undefined THEN Throw("TypeError")
                  ELSE Value(validMethodChar(charIndex(snapshot, 0)))
             ELSE IF charIndex(snapshot, 1) = Undefined THEN Throw("TypeError")
             ELSE Value(validMethodChar(charIndex(snapshot, 1)))

\* the for loop of getPrefix: the index it stops at
RECURSIVE scanBack(_, _)
scanBack(snapshot, index) ==
    IF validMethodChar(charAt(snapshot, index))
    THEN scanBack(snapshot, index - 1)
    ELSE index

\* getPrefix without the index++ that steps over the boundary character
getPrefix_keepsBoundary(fileMap, fileName, position) ==
    LET snapshot == getText(mapGet(fileMap, fileName), 0, position)
        index    == scanBack(snapshot, Len(snapshot) - 1)
    IN  IF charAt(snapshot, index) = "." \/ charAt(snapshot, index) = " "
           \/ charAt(snapshot, index) = "\n"
        THEN substring(snapshot, index, Len(snapshot))
        ELSE <<>>

getPrefix(fileMap, fileName, position) ==
    LET snapshot == getText(mapGet(fileMap, fileName), 0, position)
        index    == scanBack(snapshot, Len(snapshot) - 1)
    IN  IF charAt(snapshot, index) = "." \/ charAt(snapshot, index) = " "
           \/ charAt(snapshot, index) = "\n"
        THEN substring(snapshot, index + 1, Len(snapshot))
        ELSE <<>>

\* knownToBreak with "_" pushed to badPrefix in place of "$"
knownToBreak_underscore(prefix) == \E badPrefix \in {<<"_">>} : badPrefix = prefix

knownToBreak(prefix) == \E badPrefix \in {<<"$">>} : badPrefix = prefix

\* prefixMatch accepting the prefix anywhere in str (indexOf(_prefix) !== -1)
prefixMatch_anywhere(prefix, str) ==
    \E at \in 0..(Len(str) - Len(prefix)) :
        SubSeq(str, at + 1, at + Len(prefix)) = prefix

\* str.indexOf(_prefix) === 0
prefixMatch(prefix, str) ==
    Len(prefix) <= Len(str) /\ SubSeq(str, 1, Len(prefix)) = prefix

\* the engine's completion query and its entry-detail query, as calls made
CompletionQuery(fileName, position) ==
    [call |-> "getCompletionsAtPosition", file |-> fileName, position |-> position,
     name |-> <<>>]
DetailQuery(fileName, position, name) ==
    [call |-> "getCompletionEntryDetails", file |-> fileName, position |-> position,
     name |-> name]

\* the detail record the engine returns for an entry, passed through unread
DetailOf(name) == [detailsOf |-> name]

RECURSIVE SelectSeqBy(_, _)
SelectSeqBy(entries, prefix) ==
    IF entries = <<>> THEN <<>>
    ELSE IF prefixMatch(prefix, Head(entries))
    THEN <<Head(entries)>> \o SelectSeqBy(Tail(entries), prefix)
    ELSE SelectSeqBy(Tail(entries), prefix)

\* the engine's answer to the completion query: null, or the entries' names
NoCompletions == [kind |-> "null", entries |-> <<>>]
CompletionInfo(names) == [kind |-> "info", entries |-> names]

\* getExplicitPrunedCompletionsAtPosition, given the engine's answer
getExplicitPrunedCompletionsAtPosition(raw, pruningPrefix) ==
    IF raw.kind = "null" THEN <<>> ELSE SelectSeqBy(raw.entries, pruningPrefix)

getDetailedExplicitPrunedCompletionsAtPosition(raw, fileName, position, pruningPrefix) ==
    LET entries == getExplicitPrunedCompletionsAtPosition(raw, pruningPrefix)
    IN  [kind |-> "value",
         value |-> [pruningPrefix |-> pruningPrefix,
                    entries |-> [i \in 1..Len(entries) |-> DetailOf(entries[i])]],
         calls |-> <<CompletionQuery(fileName, position)>> \o
                   [i \in 1..Len(entries) |-> DetailQuery(fileName, position, entries[i])]]

getDetailedImplicitlyPrunedCompletionsAtPosition(fileMap, raw, fileName, position) ==
    LET valid == validPosition(fileMap, fileName, position)
    IN  IF valid.kind = "throw" THEN valid
        ELSE IF valid.value
        THEN LET pruningPrefix == getPrefix(fileMap, fileName, position)
             IN  IF knownToBreak(pruningPrefix)
                 THEN [kind |-> "value",
                       value |-> [pruningPrefix |-> pruningPrefix, entries |-> <<>>],
                       calls |-> <<>>]
                 ELSE getDetailedExplicitPrunedCompletionsAtPosition(
                          raw, fileName, position, pruningPrefix)
        ELSE [kind |-> "value",
              value |-> [pruningPrefix |-> <<>>, entries |-> <<>>],
              calls |-> <<>>]

getCompletionsAtPosition(fileMap, raw, file, position) ==
    getDetailedImplicitlyPrunedCompletionsAtPosition(fileMap, raw, file, position)

\* ------------------------------------------------------------ state

VARIABLES
    fileMap,  \* LanguageServiceHost.fileMap: file name -> ScriptSnapshot fields
    track,    \* per snapshot object: the content length at each of its versions,
              \* the version it had before its latest full replace (0: none
              \* since its construction), and the change ranges of the edits
              \* made since, one per version, oldest first
    last,     \* the latest call: operation, files, arguments and result
    env       \* the inputs the environment draws from, fixed at the start

vars == <<fileMap, track, last, env>>

RECURSIVE StringsUpTo(_, _)
StringsUpTo(chars, n) ==
    IF n = 0 THEN {<<>>}
    ELSE LET shorter == StringsUpTo(chars, n - 1)
         IN  shorter \cup {Append(s, c) : s \in shorter, c \in chars}

RECURSIVE SeqsUpTo(_, _)
SeqsUpTo(S, n) ==
    IF n = 0 THEN {<<>>}
    ELSE LET shorter == SeqsUpTo(S, n - 1)
         IN  shorter \cup {Append(s, x) : s \in shorter, x \in S}

\* what readFileContents(file) does: returns the contents, or throws
ReadOk(contents) == [kind |-> "contents", contents |-> contents]
ReadFails == [kind |-> "fails", contents |-> <<>>]

Call(op, files, args, result) ==
    [op |-> op, files |-> files, args |-> args, result |-> result]

NoArgs == [none |-> TRUE]

\* the tracking of a snapshot object just constructed with this content
TrackNew(content) == [lens |-> <<Len(content)>>, resetAt |-> 0, log |-> <<>>]
\* ... after a full replace at version v
TrackReplace(t, v, content) ==
    [lens |-> Append(t.lens, Len(content)), resetAt |-> v, log |-> <<>>]
\* ... after an edit that replaced [offset, offset + length) by text
TrackEdit(t, content, offset, length, text) ==
    [t EXCEPT !.lens = Append(@, Len(content)),
              !.log  = Append(@, TextChangeRange(offset, offset + length, Len(text)))]

\* --------------------------------------------------------- environments
\* A run draws every argument from the sets of its environment: the files and
\* texts it uses and which operations it calls (an empty set: never called).

Chars == {"a", "\n"}

\* one file registered and mutated once, with every content and every edit
WideEnv ==
    [files      |-> {"f1"},
     contents   |-> StringsUpTo(Chars, MaxLen),
     texts      |-> StringsUpTo(Chars, 1),
     offsets    |-> 0..(MaxLen + 1),
     lengths    |-> 0..MaxLen,
     versions   |-> {InitialVersion - 1, InitialVersion, InitialVersion + 1},
     positions  |-> {},
     raws       |-> {},
     spans      |-> {},
     toggles    |-> {},
     inspect    |-> {},
     maxLen     |-> MaxLen,
     maxVersion |-> InitialVersion + 1,
     maxBatch   |-> 1]

\* one file through a series of replaces and edits, asked for the changes
\* since every earlier version
DeepEnv ==
    [files      |-> {"f1"},
     contents   |-> StringsUpTo({"a"}, 1),
     texts      |-> {<<>>, <<"a">>},
     offsets    |-> {0, MaxLen + 1},
     lengths    |-> {0, 1},
     versions   |-> 0..(MaxVersion + 1),
     positions  |-> {},
     raws       |-> {},
     spans      |-> {},
     toggles    |-> {},
     inspect    |-> {},
     maxLen     |-> MaxLen,
     maxVersion |-> MaxVersion,
     maxBatch   |-> 1]

\* two files added, removed, replaced, edited and completed through the facade
RegistryEnv ==
    [files      |-> {"f1", "f2"},
     contents   |-> {<<>>, <<"a">>},
     texts      |-> {<<"a">>},
     offsets    |-> {0, MaxLen},
     lengths    |-> {0, 1},
     versions   |-> {},
     positions  |-> {0, 1},
     raws       |-> {NoCompletions, CompletionInfo(<<<<"a">>, <<"b">>>>)},
     spans      |-> {},
     toggles    |-> {},
     inspect    |-> {"f1", "f2"},
     maxLen     |-> MaxLen,
     maxVersion |-> InitialVersion + 1,
     maxBatch   |-> MaxBatch]

\* one file read, completed and its open flag toggled
InspectEnv ==
    [files      |-> {"f1"},
     contents   |-> StringsUpTo(Chars, MaxLen),
     texts      |-> {<<>>, <<"a">>},
     offsets    |-> {0, 1},
     lengths    |-> {0, 1},
     versions   |-> {InitialVersion, InitialVersion + 1},
     positions  |-> 0..(MaxLen + 1),
     raws       |-> {NoCompletions, CompletionInfo(<<<<"a">>, <<"b">>>>)},
     spans      |-> (-1..(MaxLen + 1)) \X (-1..(MaxLen + 1)),
     toggles    |-> {"f1"},
     inspect    |-> {"f1"},
     maxLen     |-> MaxLen,
     maxVersion |-> InitialVersion + 1,
     maxBatch   |-> 1]

\* the characters of the completed texts: an identifier character, the member
\* dot, the denylisted "$", a space and a character that is neither an
\* identifier character nor a boundary
CompletionChars == {"a", ".", "$", " ", "-"}

\* the engine's answers: none, and names that contain, start with, differ in
\* case from and equal the prefix "a", and the denylisted name
EngineAnswers ==
    {NoCompletions,
     CompletionInfo(<< <<"b", "a">>, <<"a", "b">>, <<"A">>, <<"$">>, <<"a">> >>)}

\* one file of every text, registered once and completed at every position
CompletionEnv ==
    [files      |-> {"f1"},
     contents   |-> StringsUpTo(CompletionChars, MaxLen),
     texts      |-> {},
     offsets    |-> {},
     lengths    |-> {},
     versions   |-> {},
     positions  |-> 0..(MaxLen + 1),
     raws       |-> EngineAnswers,
     spans      |-> {},
     toggles    |-> {},
     inspect    |-> {},
     maxLen     |-> MaxLen,
     maxVersion |-> InitialVersion,
     maxBatch   |-> 1]

\* two files of one text registered in longer batches, some reads failing
BatchEnv ==
    [files      |-> {"f1", "f2"},
     contents   |-> {<<"a">>},
     texts      |-> {},
     offsets    |-> {},
     lengths    |-> {},
     versions   |-> {},
     positions  |-> {},
     raws       |-> {},
     spans      |-> {},
     toggles    |-> {},
     inspect    |-> {},
     maxLen     |-> MaxLen,
     maxVersion |-> InitialVersion,
     maxBatch   |-> MaxBatch + 2]

\* one file in a long session of one repeated edit
LongEnv(offset, length, text) ==
    [files      |-> {"f1"},
     contents   |-> {<<"a">>},
     texts      |-> {text},
     offsets    |-> {offset},
     lengths    |-> {length},
     versions   |-> {0, 1, 2, MaxLongVersion - 1},
     positions  |-> {},
     raws       |-> {},
     spans      |-> {},
     toggles    |-> {},
     inspect    |-> {},
     maxLen     |-> 1,
     maxVersion |-> MaxLongVersion,
     maxBatch   |-> 1]

Init ==
    /\ fileMap = <<>>
    /\ track = <<>>
    /\ last = Call("new", {}, NoArgs, Value(TRUE))
    /\ env \in {WideEnv, DeepEnv, RegistryEnv, InspectEnv, CompletionEnv, BatchEnv}

\* ------------------------------------------- LanguageServiceHost methods
\* Each returns the file map it leaves and what it returns or throws.

Outcome(map, result) == [fileMap |-> map, result |-> result]

\* addFile that keeps the snapshot of a file already in the map
addFile_keepsExisting(map, file, read) ==
    IF read.kind = "fails" THEN Outcome(map, Throw("IOError"))
    ELSE IF mapHas(map, file) THEN Outcome(map, Value(TRUE))
    ELSE Outcome(mapSet(map, file, NewScriptSnapshot(read.contents)), Value(TRUE))

\* addFile that has dropped the file's entry when the read throws
addFile_dropsOnFailure(map, file, read) ==
    IF read.kind = "fails" THEN Outcome(mapDelete(map, file), Throw("IOError"))
    ELSE Outcome(mapSet(map, file, NewScriptSnapshot(read.contents)), Value(TRUE))

\* addFile: new ScriptSnapshot(file) reads the file before the map is touched
addFile(map, file, read) ==
    IF read.kind = "fails" THEN Outcome(map, Throw("IOError"))
    ELSE Outcome(mapSet(map, file, NewScriptSnapshot(read.contents)), Value(TRUE))

removeFile(map, file) == Outcome(mapDelete(map, file), Value(mapHas(map, file)))

updateFileContents(map, file, content) ==
    IF ~mapHas(map, file) THEN Outcome(map, Throw("TypeError"))
    ELSE Outcome(mapSet(map, file, updateContent(mapGet(map, file), content, TRUE)),
                 Value(TRUE))

\* updateFile: the argument readFileContents(file) is evaluated before the call
updateFile(map, file, read) ==
    IF read.kind = "fails" THEN Outcome(map, Throw("IOError"))
    ELSE updateFileContents(map, file, read.contents)

editFile(map, file, offset, length, replacementText) ==
    IF ~mapHas(map, file) THEN Outcome(map, Throw("TypeError"))
    ELSE Outcome(mapSet(map, file, addEdit(mapGet(map, file), offset, length,
                                           replacementText)),
                 Value(TRUE))

\* ------------------------------------- LanguageServiceHostService methods

\* addFiles: the loop stops at the first file whose read throws
RECURSIVE addFiles(_, _)
addFiles(map, batch) ==
    IF batch = <<>> THEN Outcome(map, Value(TRUE))
    ELSE LET one == addFile(map, Head(batch).file, Head(batch).read)
         IN  IF one.result.kind = "throw" THEN one
             ELSE addFiles(one.fileMap, Tail(batch))

RECURSIVE removeFiles(_, _)
removeFiles(map, files) ==
    IF files = <<>> THEN Outcome(map, Value(TRUE))
    ELSE removeFiles(removeFile(map, Head(files)).fileMap, Tail(files))

\* the files of a batch for which addFile stored a new snapshot
RECURSIVE Stored(_)
Stored(batch) ==
    IF batch = <<>> \/ Head(batch).read.kind = "fails" THEN {}
    ELSE {Head(batch).file} \cup Stored(Tail(batch))

Range(seq) == {seq[i] : i \in 1..Len(seq)}

\* the files a batch names
Named(batch) == {batch[i].file : i \in 1..Len(batch)}

\* ------------------------------------------------------------ actions

Reads == {ReadOk(c) : c \in env.contents} \cup {ReadFails}

\* a mutation of this file stays within the bounds of the run
MayMutate(file) ==
    mapHas(fileMap, file) => fileMap[file].version < env.maxVersion

AddFiles ==
    \E batch \in SeqsUpTo([file : env.files, read : Reads], env.maxBatch) :
        LET out == addFiles(fileMap, batch)
        IN  /\ fileMap' = out.fileMap
            /\ track' = [f \in DOMAIN out.fileMap |->
                            IF f \in Stored(batch)
                            THEN TrackNew(out.fileMap[f].content)
                            ELSE track[f]]
            /\ last' = Call("addFiles", Stored(batch),
                            [batch |-> batch,
                             prior |-> [f \in Named(batch) \cap DOMAIN fileMap |->
                                           fileMap[f].version]],
                            out.result)
            /\ UNCHANGED env

RemoveFiles ==
    \E files \in SeqsUpTo(env.files, env.maxBatch) :
        LET out == removeFiles(fileMap, files)
        IN  /\ fileMap' = out.fileMap
            /\ track' = [f \in DOMAIN out.fileMap |-> track[f]]
            /\ last' = Call("removeFiles", Range(files), [files |-> files], out.result)
            /\ UNCHANGED env

UpdateFileContents ==
    \E file \in env.files, content \in env.contents :
        LET out == updateFileContents(fileMap, file, content)
        IN  /\ MayMutate(file)
            /\ fileMap' = out.fileMap
            /\ track' = IF out.result.kind = "throw" THEN track
                        ELSE [track EXCEPT ![file] =
                                TrackReplace(@, fileMap[file].version, content)]
            /\ last' = Call("updateFileContents", {file}, [content |-> content],
                            out.result)
            /\ UNCHANGED env

UpdateFile ==
    \E file \in env.files, read \in Reads :
        LET out == updateFile(fileMap, file, read)
        IN  /\ MayMutate(file)
            /\ fileMap' = out.fileMap
            /\ track' = IF out.result.kind = "throw" THEN track
                        ELSE [track EXCEPT ![file] =
                                TrackReplace(@, fileMap[file].version, read.contents)]
            /\ last' = Call("updateFile", {file}, [read |-> read], out.result)
            /\ UNCHANGED env

EditFile ==
    \E file \in env.files, offset \in env.offsets, length \in env.lengths,
       replacementText \in env.texts :
        LET out == editFile(fileMap, file, offset, length, replacementText)
        IN  /\ MayMutate(file)
            /\ mapHas(out.fileMap, file) => Len(out.fileMap[file].content) <= env.maxLen
            /\ fileMap' = out.fileMap
            /\ track' = IF out.result.kind = "throw" THEN track
                        ELSE [track EXCEPT ![file] =
                                TrackEdit(@, out.fileMap[file].content,
                                          offset, length, replacementText)]
            /\ last' = Call("editFile", {file},
                            [offset |-> offset, length |-> length,
                             replacementText |-> replacementText],
                            out.result)
            /\ UNCHANGED env

GetCompletionsAtPosition ==
    \E file \in env.files, position \in env.positions, raw \in env.raws :
        /\ last' = Call("getCompletionsAtPosition", {file},
                        [position |-> position, raw |-> raw],
                        getCompletionsAtPosition(fileMap, raw, file, position))
        /\ UNCHANGED <<fileMap, track, env>>

\* getScriptVersion(file)
GetScriptVersion ==
    \E file \in env.inspect :
        /\ last' = Call("getScriptVersion", {file}, NoArgs,
                        IF mapHas(fileMap, file)
                        THEN Value(mapGet(fileMap, file).version)
                        ELSE Throw("TypeError"))
        /\ UNCHANGED <<fileMap, track, env>>

\* getScriptIsOpen(file), which calls isOpen()
GetScriptIsOpen ==
    \E file \in env.inspect :
        /\ last' = Call("getScriptIsOpen", {file}, NoArgs,
                        IF mapHas(fileMap, file)
                        THEN Value(mapGet(fileMap, file).open)
                        ELSE Throw("TypeError"))
        /\ UNCHANGED <<fileMap, track, env>>

\* The methods of the snapshot that getScriptSnapshot(file) hands out.

SetOpen ==
    \E file \in DOMAIN fileMap \cap env.toggles :
        /\ fileMap' = [fileMap EXCEPT ![file].open = TRUE]
        /\ last' = Call("setOpen", {file}, NoArgs, Value(TRUE))
        /\ UNCHANGED <<track, env>>

SetClosed ==
    \E file \in DOMAIN fileMap \cap env.toggles :
        /\ fileMap' = [fileMap EXCEPT ![file].open = FALSE]
        /\ last' = Call("setClosed", {file}, NoArgs, Value(TRUE))
        /\ UNCHANGED <<track, env>>

GetText ==
    \E file \in DOMAIN fileMap, span \in env.spans :
        /\ last' = Call("getText", {file}, [start |-> span[1], end |-> span[2]],
                        Value(getText(fileMap[file], span[1], span[2])))
        /\ UNCHANGED <<fileMap, track, env>>

GetLength ==
    \E file \in DOMAIN fileMap \cap env.inspect :
        /\ last' = Call("getLength", {file}, NoArgs, Value(getLength(fileMap[file])))
        /\ UNCHANGED <<fileMap, track, env>>

GetLineStartPositions ==
    \E file \in DOMAIN fileMap \cap env.inspect :
        /\ last' = Call("getLineStartPositions", {file}, NoArgs,
                        Value(fileMap[file].lineStartPositions))
        /\ UNCHANGED <<fileMap, track, env>>

GetTextChangeRangeSinceVersion ==
    \E file \in DOMAIN fileMap, version \in env.versions :
        /\ last' = Call("getTextChangeRangeSinceVersion", {file},
                        [version |-> version],
                        Value(getTextChangeRangeSinceVersion(fileMap[file], version)))
        /\ UNCHANGED <<fileMap, track, env>>

Next ==
    \/ AddFiles
    \/ RemoveFiles
    \/ UpdateFileContents
    \/ UpdateFile
    \/ EditFile
    \/ GetCompletionsAtPosition
    \/ GetScriptVersion
    \/ GetScriptIsOpen
    \/ SetOpen
    \/ SetClosed
    \/ GetText
    \/ GetLength
    \/ GetLineStartPositions
    \/ GetTextChangeRangeSinceVersion

Spec == Init /\ [][Next]_vars

\* The long session: replace the first character, insert nothing, or delete
\* past the end, over and over, with reloads and re-adds in between.
InitOverflow ==
    /\ fileMap = <<>>
    /\ track = <<>>
    /\ last = Call("new", {}, NoArgs, Value(TRUE))
    /\ env \in {LongEnv(0, 1, <<"a">>), LongEnv(0, 0, <<>>), LongEnv(1, 1, <<>>)}

NextOverflow ==
    \/ AddFiles
    \/ RemoveFiles
    \/ UpdateFileContents
    \/ UpdateFile
    \/ EditFile
    \/ GetTextChangeRangeSinceVersion

SpecOverflow == InitOverflow /\ [][NextOverflow]_vars

\* ------------------------------------------------------------ properties

\* the latest call was op, on file f
Called(op, f) == last.op = op /\ f \in last.files

Returned == last.result.kind = "value"

\* the operations that replace the whole content of a registered file
Replaces == {"updateFileContents", "updateFile"}

\* the number of mutations the snapshot object of f has received
Mutations(f) == Len(track[f].lens) - 1

\* C1: a full replace or an edit of a buffer raises its version by exactly 1;
\* every other operation on it, and every operation on another buffer, leaves
\* its version as it was.  (addFiles stores a new snapshot object.)
C1_VersionStepsByOne ==
    [][\A f \in DOMAIN fileMap \cap DOMAIN fileMap' :
          IF last'.op = "addFiles" /\ f \in last'.files THEN TRUE
          ELSE IF /\ last'.op \in Replaces \cup {"editFile"}
                  /\ f \in last'.files
                  /\ last'.result.kind = "value"
          THEN fileMap'[f].version = fileMap[f].version + 1
          ELSE fileMap'[f].version = fileMap[f].version]_vars

\* a buffer edited after an earlier mutation
C1_Witness ==
    \E f \in DOMAIN fileMap :
        Called("editFile", f) /\ Returned /\ fileMap[f].version = InitialVersion + 2

C3_HistoryBounded ==
    [][\A f \in DOMAIN fileMap' :
          /\ Len(fileMap'[f].changes) <= maxChanges
          /\ ( /\ last'.op = "editFile"
               /\ f \in last'.files
               /\ f \in DOMAIN fileMap
               /\ Len(fileMap[f].changes) = maxChanges )
             => fileMap'[f].changes =
                    << TextChangeRange(last'.args.offset,
                                       last'.args.offset + last'.args.length,
                                       Len(last'.args.replacementText)) >>]_vars

\* the edit that found maxChanges entries: the 101st edit of a fresh buffer
C3_Witness ==
    \E f \in DOMAIN fileMap :
        /\ Called("editFile", f)
        /\ track[f].resetAt = 0
        /\ Mutations(f) = maxChanges + 1
        /\ Len(fileMap[f].changes) = 1

\* C4: of a fresh buffer that received only edits, the change range since the
\* initial version is a merged range after 100 edits and null after 101; the
\* request returns in both cases.
C4_UnknownAfter101Edits ==
    \A f \in DOMAIN fileMap :
        ( /\ Called("getTextChangeRangeSinceVersion", f)
          /\ last.args.version = InitialVersion
          /\ track[f].resetAt = 0 )
        => /\ Returned
           /\ Mutations(f) = maxChanges => last.result.value.kind = "range"
           /\ Mutations(f) = maxChanges + 1 => last.result.value = null

\* the request after the 101st edit
C4_Witness ==
    \E f \in DOMAIN fileMap :
        /\ Called("getTextChangeRangeSinceVersion", f)
        /\ last.args.version = InitialVersion
        /\ track[f].resetAt = 0
        /\ Mutations(f) = maxChanges + 1
        /\ last.result.value = null

\* C5: an edit with 0 <= offset and offset + length <= len(content) leaves
\* content[0:offset] + replacementText + content[offset+length:].
C5_EditSplices ==
    [][\A f \in DOMAIN fileMap :
          ( /\ last'.op = "editFile"
            /\ f \in last'.files
            /\ 0 <= last'.args.offset
            /\ last'.args.offset + last'.args.length <= Len(fileMap[f].content) )
          => fileMap'[f].content =
                 SubSeq(fileMap[f].content, 1, last'.args.offset)
                 \o last'.args.replacementText
                 \o SubSeq(fileMap[f].content,
                           last'.args.offset + last'.args.length + 1,
                           Len(fileMap[f].content))]_vars

\* the second character of a two-character content replaced by a newline
C5_Witness ==
    \E f \in DOMAIN fileMap :
        /\ Called("editFile", f)
        /\ last.args = [offset |-> 1, length |-> 1, replacementText |-> <<"\n">>]
        /\ Mutations(f) >= 1
        /\ track[f].lens[Mutations(f)] = 2
        /\ fileMap[f].content = <<"a", "\n">>

\* C6: an edit of a registered file with offset < 0 or offset + length beyond
\* the content fails, and content, version and history stay as they were.
C6_OutOfBoundsEditRejected ==
    [][\A f \in DOMAIN fileMap :
          ( /\ last'.op = "editFile"
            /\ f \in last'.files
            /\ \/ last'.args.offset < 0
               \/ last'.args.offset + last'.args.length > Len(fileMap[f].content) )
          => /\ last'.result.kind = "throw"
             /\ fileMap' = fileMap]_vars

\* C7: asked for the changes since its current version, a buffer answers with
\* the "no change" sentinel.
C7_UnchangedSinceCurrent ==
    \A f \in DOMAIN fileMap :
        ( /\ Called("getTextChangeRangeSinceVersion", f)
          /\ last.args.version = fileMap[f].version )
        => last.result = Value(unchanged)

\* the request on a buffer with a history, after a replace and an edit
C7_Witness ==
    \E f \in DOMAIN fileMap :
        /\ Called("getTextChangeRangeSinceVersion", f)
        /\ last.args.version = fileMap[f].version
        /\ track[f].resetAt > 0
        /\ fileMap[f].changes # <<>>

\* C8: a full replace sets the content, empties the history and raises the
\* version by one; from then on the changes since any version the buffer had
\* before the replace are unknown (null).
C8_ReplaceForgetsHistory ==
    [][\A f \in DOMAIN fileMap' :
          /\ ( /\ last'.op \in Replaces
               /\ f \in last'.files
               /\ last'.result.kind = "value" )
             => /\ fileMap'[f].content =
                       IF last'.op = "updateFile" THEN last'.args.read.contents
                       ELSE last'.args.content
                /\ fileMap'[f].changes = <<>>
                /\ fileMap'[f].version = fileMap[f].version + 1
          /\ ( /\ last'.op = "getTextChangeRangeSinceVersion"
               /\ f \in last'.files
               /\ last'.args.version <= track'[f].resetAt )
             => last'.result = Value(null)]_vars

\* the changes since the version before a replace, asked after a later edit
C8_Witness ==
    \E f \in DOMAIN fileMap :
        /\ Called("getTextChangeRangeSinceVersion", f)
        /\ track[f].resetAt >= InitialVersion
        /\ last.args.version = track[f].resetAt
        /\ fileMap[f].version > track[f].resetAt + 1
        /\ fileMap[f].changes # <<>>

RECURSIVE SumDeltas(_)
SumDeltas(changes) ==
    IF changes = <<>> THEN 0
    ELSE Head(changes).newLength - (Head(changes).end - Head(changes).start)
         + SumDeltas(Tail(changes))

\* C9: a merged range over the last k = version - oldVersion edits has the net
\* length delta that is the sum of the k entries' deltas, which is the length
\* of the current content minus the length of the content at oldVersion.
C9_MergedDeltaIsLengthChange ==
    \A f \in DOMAIN fileMap :
        ( /\ Called("getTextChangeRangeSinceVersion", f)
          /\ last.args.version < fileMap[f].version
          /\ last.result.value.kind = "range" )
        => LET merged == last.result.value
               k      == fileMap[f].version - last.args.version
               window == slice(fileMap[f].changes, Len(fileMap[f].changes) - k)
               net    == merged.newLength - (merged.end - merged.start)
           IN  /\ net = SumDeltas(window)
               /\ net = track[f].lens[fileMap[f].version - InitialVersion + 1]
                        - track[f].lens[last.args.version - InitialVersion + 1]

\* C10: replacing, reloading, editing or completing a file that is not
\* registered fails and leaves the registry and its buffers as they were.
C10_UnregisteredFails ==
    [][\A f \in last'.files :
          ( /\ last'.op \in Replaces \cup {"editFile", "getCompletionsAtPosition"}
            /\ f \notin DOMAIN fileMap )
          => /\ last'.result.kind = "throw"
             /\ fileMap' = fileMap]_vars

\* ------------------------------------------------- completion, as specified

\* ASCII letters, digits, "(", ")", "$" and "_"
IsIdentifierChar(c) ==
    c \in Range(LowerCase) \cup Range(UpperCase) \cup Digits \cup {"(", ")", "$", "_"}

\* the validity rule: c2 is the character at position-1, c1 the one at
\* position-2; at position 1 there is no c1
PositionIsValid(content, position) ==
    /\ position >= 1
    /\ IF content[position] = "."
       THEN position >= 2 /\ IsIdentifierChar(content[position - 1])
       ELSE IsIdentifierChar(content[position])

\* the length of the maximal trailing run of identifier characters of text
TrailingRun(text) ==
    CHOOSE k \in 0..Len(text) :
        /\ \A i \in (Len(text) - k + 1)..Len(text) : IsIdentifierChar(text[i])
        /\ k = Len(text) \/ ~IsIdentifierChar(text[Len(text) - k])

\* the prefix rule: the trailing run when ".", a space or a newline precedes it
PrefixOf(text) ==
    LET k == TrailingRun(text)
    IN  IF k < Len(text) /\ text[Len(text) - k] \in {".", " ", "\n"}
        THEN SubSeq(text, Len(text) - k + 1, Len(text))
        ELSE <<>>

StartsWith(name, prefix) ==
    /\ Len(prefix) <= Len(name)
    /\ \A i \in 1..Len(prefix) : name[i] = prefix[i]

\* the latest call completed the registered file f at a position of its text
Completed(f) ==
    /\ Called("getCompletionsAtPosition", f)
    /\ f \in DOMAIN fileMap
    /\ last.args.position <= Len(fileMap[f].content)

\* the text before the cursor of the latest completion of f
BeforeCursor(f) == SubSeq(fileMap[f].content, 1, last.args.position)

\* the result of a request that offered nothing and asked the engine nothing
Suppressed(prefix) ==
    [kind |-> "value", value |-> [pruningPrefix |-> prefix, entries |-> <<>>],
     calls |-> <<>>]

\* the latest completion found its position valid: it asked the engine, or
\* stopped at the denylist
JudgedValid ==
    /\ Returned
    /\ last.result.calls # <<>> \/ last.result.value.pruningPrefix = <<"$">>

\* C11: at every position from 0 to the length of the content the request
\* returns; it finds the position valid exactly when the validity rule says so
\* (never at position 0), and at an invalid position it returns the empty
\* prefix and no entries without asking the engine.
C11_ValidityDecided ==
    \A f \in DOMAIN fileMap :
        Completed(f) =>
            /\ Returned
            /\ JudgedValid <=> PositionIsValid(fileMap[f].content, last.args.position)
            /\ ~PositionIsValid(fileMap[f].content, last.args.position)
                  => last.result = Suppressed(<<>>)

C13_DenylistedPrefixSuppressed ==
    \A f \in DOMAIN fileMap :
        ( /\ Completed(f)
          /\ PrefixOf(BeforeCursor(f)) = <<"$">> )
        => last.result = Suppressed(<<"$">>)

\* "$" typed after a space, with an engine that has an entry named "$"
C13_Witness ==
    \E f \in DOMAIN fileMap :
        /\ Completed(f)
        /\ BeforeCursor(f) = <<" ", "$">>
        /\ last.args.raw.kind = "info"
        /\ \E i \in 1..Len(last.args.raw.entries) :
              StartsWith(last.args.raw.entries[i], <<"$">>)
        /\ last.result = Suppressed(<<"$">>)

\* the raw entries whose name starts with the prefix, in the engine's order
Surviving(f) ==
    SelectSeq(last.args.raw.entries,
              LAMBDA name : StartsWith(name, PrefixOf(BeforeCursor(f))))

\* C14: at a valid position with a prefix not denylisted and an engine that
\* answers with entries, the result holds the detail records of exactly the
\* entries whose name starts with the prefix, in the engine's order, and the
\* engine is asked for the completions once and then for the details of each
\* surviving entry, in that order, and of no other entry.
C14_EntriesFilteredInOrder ==
    \A f \in DOMAIN fileMap :
        ( /\ Completed(f)
          /\ JudgedValid
          /\ PrefixOf(BeforeCursor(f)) # <<"$">>
          /\ last.args.raw.kind = "info" )
        => /\ last.result.value.entries =
                  [i \in 1..Len(Surviving(f)) |-> DetailOf(Surviving(f)[i])]
           /\ last.result.calls =
                  <<CompletionQuery(f, last.args.position)>> \o
                  [i \in 1..Len(Surviving(f)) |->
                      DetailQuery(f, last.args.position, Surviving(f)[i])]

\* the prefix "a" against names that contain it, start with it, differ from it
\* in case and equal it: two survive
C14_Witness ==
    \E f \in DOMAIN fileMap :
        /\ Completed(f)
        /\ JudgedValid
        /\ PrefixOf(BeforeCursor(f)) = <<"a">>
        /\ last.args.raw.kind = "info"
        /\ Len(last.args.raw.entries) = 5
        /\ last.result.value.entries = <<DetailOf(<<"a", "b">>), DetailOf(<<"a">>)>>
        /\ Len(last.result.calls) = 3

\* C15: when the engine answers a request at a valid position, with a prefix
\* not denylisted, with "no completions", the request returns no entries and
\* the empty prefix.
C15_NoCompletionsEmptyPrefix ==
    \A f \in DOMAIN fileMap :
        ( /\ Completed(f)
          /\ JudgedValid
          /\ PrefixOf(BeforeCursor(f)) # <<"$">>
          /\ last.args.raw.kind = "null" )
        => /\ last.result.value.pruningPrefix = <<>>
           /\ last.result.value.entries = <<>>

\* C16: getText(start, end) fails unless 0 <= start <= end <= len(content),
\* instead of returning a clamped or swapped substring, and so does a
\* completion at a position beyond the content, whose reads end there.
C16_ReadOutOfBoundsRejected ==
    \A f \in DOMAIN fileMap :
        /\ ( /\ Called("getText", f)
             /\ ~( /\ 0 <= last.args.start
                   /\ last.args.start <= last.args.end
                   /\ last.args.end <= Len(fileMap[f].content) ) )
           => last.result.kind = "throw"
        /\ ( /\ Called("getCompletionsAtPosition", f)
             /\ last.args.position > Len(fileMap[f].content) )
           => last.result.kind = "throw"

\* ------------------------------------------------- registration, as specified

\* the entries of a batch before the first one whose read fails
ReadPrefix(batch) ==
    LET n == CHOOSE n \in 0..Len(batch) :
                 /\ \A i \in 1..n : batch[i].read.kind = "contents"
                 /\ n = Len(batch) \/ batch[n + 1].read.kind = "fails"
    IN  SubSeq(batch, 1, n)

\* what the reader returned for f the last time the entries named it
ContentRead(entries, f) ==
    LET i == CHOOSE i \in 1..Len(entries) :
                 /\ entries[i].file = f
                 /\ \A j \in (i + 1)..Len(entries) : entries[j].file # f
    IN  entries[i].read.contents

\* a step that registers again a file that has a buffer leaves one buffer for
\* it, with the content read, no history, the open flag set and this version,
\* and leaves the buffers of the files it does not name as they were
ReAddGivesFresh(version) ==
    \A f \in DOMAIN fileMap :
        (last'.op = "addFiles" /\ f \in last'.files)
        => /\ DOMAIN fileMap' = DOMAIN fileMap \cup last'.files
           /\ fileMap'[f].content = ContentRead(ReadPrefix(last'.args.batch), f)
           /\ fileMap'[f].changes = <<>>
           /\ fileMap'[f].open = TRUE
           /\ fileMap'[f].version = version
           /\ \A g \in DOMAIN fileMap \ last'.files : fileMap'[g] = fileMap[g]

C18_UnknownOutsideWindow ==
    \A f \in DOMAIN fileMap :
        ( /\ Called("getTextChangeRangeSinceVersion", f)
          /\ last.args.version # fileMap[f].version )
        => IF /\ 1 <= fileMap[f].version - last.args.version
              /\ fileMap[f].version - last.args.version <= Len(fileMap[f].changes)
           THEN last.result.value.kind = "range"
           ELSE last.result = Value(null)

\* C19: the history of a buffer is the list of the change ranges of its last
\* len(history) version transitions, oldest first, all of them edits made
\* after its latest full replace; and a merged range since oldVersion is
\* collapsed from the change ranges of the edits that produced the versions
\* oldVersion + 1 .. version, in order, none of them a replace.
C19_HistoryIsLastEdits ==
    \A f \in DOMAIN fileMap :
        LET changes == fileMap[f].changes
            log     == track[f].log
            since   == IF track[f].resetAt = 0 THEN InitialVersion
                       ELSE track[f].resetAt + 1
        IN  /\ Len(log) = fileMap[f].version - since
            /\ Len(changes) <= Len(log)
            /\ changes = SubSeq(log, Len(log) - Len(changes) + 1, Len(log))
            /\ ( /\ Called("getTextChangeRangeSinceVersion", f)
                 /\ last.args.version < fileMap[f].version
                 /\ last.result.value.kind = "range" )
               => /\ last.args.version >= since
                  /\ last.result.value =
                        collapseChangesAcrossMultipleVersions(
                            SubSeq(log, Len(log) - (fileMap[f].version - last.args.version) + 1,
                                   Len(log)))

\* a merged range over two different edits made after a full replace
C19_Witness ==
    \E f \in DOMAIN fileMap :
        /\ Called("getTextChangeRangeSinceVersion", f)
        /\ track[f].resetAt >= InitialVersion
        /\ last.args.version = fileMap[f].version - 2
        /\ last.result.value.kind = "range"
        /\ Len(fileMap[f].changes) = 2
        /\ fileMap[f].changes[1] # fileMap[f].changes[2]

\* C20: a read that fails while a file is added, added again or reloaded
\* fails the call and leaves the entry of that file as it was; addFiles has
\* then registered the files before the failing one and none after it.
C20_FailedReadLeavesEntry ==
    [][/\ ( last'.op = "updateFile" /\ last'.args.read.kind = "fails" )
          => /\ last'.result.kind = "throw"
             /\ fileMap' = fileMap
       /\ ( /\ last'.op = "addFiles"
            /\ \E i \in 1..Len(last'.args.batch) : last'.args.batch[i].read.kind = "fails" )
          => LET before == ReadPrefix(last'.args.batch)
             IN  /\ last'.result.kind = "throw"
                 /\ DOMAIN fileMap' = DOMAIN fileMap \cup Named(before)
                 /\ \A f \in DOMAIN fileMap \ Named(before) : fileMap'[f] = fileMap[f]
                 /\ \A f \in Named(before) :
                       /\ fileMap'[f].content = ContentRead(before, f)
                       /\ fileMap'[f].version = InitialVersion]_vars

\* a batch of three: the first file registered, the read of the second fails,
\* and the third entry, which would have added it, is never reached
C20_Witness ==
    /\ last.op = "addFiles"
    /\ last.result.kind = "throw"
    /\ Len(last.args.batch) = 3
    /\ last.args.batch[1].read.kind = "contents"
    /\ last.args.batch[2].read.kind = "fails"
    /\ last.args.batch[3].read.kind = "contents"
    /\ last.args.batch[3].file = last.args.batch[2].file
    /\ last.args.batch[1].file \in DOMAIN fileMap
    /\ last.args.batch[2].file \notin DOMAIN fileMap

====
